---- MODULE Spec2Model ----
(***************************************************************************)
(* The experiment runner of Opensplat_optimization:                        *)
(*   opensplat_param_test_quick.py  OpenSplatTester.run_all_tests and      *)
(*                                  OpenSplatTester.run_single_test        *)
(*   quick_test.py                  run_serial, run_parallel and run_test  *)
(*   opensplat_param_test_quick.py  _safe_print, generate_report and the   *)
(*                                  summary of main                        *)
(*   compare_results.py             the grouping of print_comparison       *)
(* One run of one script is one behaviour.  The external process, the      *)
(* file system and the thread scheduler are the environment: what they do  *)
(* is chosen nondeterministically in the actions.                          *)
(***************************************************************************)
EXTENDS Integers, Sequences, FiniteSets, TLC

\* Largest number of test cases handed to a run (quick_test.TEST_CASES is
\* modelled by a list of the same bounded length).
MaxN == 3

\* Largest value of max_workers (-p / --parallel).
MaxW == 2

\* error_msg[:200] on the console, error_msg[:500] in the report.
PrintCut == 200

ReportCut == 500

\* if len(header) > 10000: break
HeaderBudget == 10000

(***************************************************************************)
(* Strings.  A text is kept as its content tag and its length, so that     *)
(* slicing s[:n] is a real operation on it.                                *)
(***************************************************************************)
Text(t, n) == [txt |-> t, len |-> n]

Str(s) == Text(s, Len(s))

EmptyStr == Text("", 0)

\* Python None in a field that otherwise holds a string.
None == Text("None", -1)

\* s[:n]
Cut(s, n) == IF s.len <= n THEN s ELSE Text(s.txt, n)

\* The captured stderr of an exited process: empty, or longer than both
\* display cuts.
StderrTexts == {EmptyStr, Text("stderr", ReportCut + 1)}

\* str(e) of the OSError raised by subprocess.run when the tool cannot be
\* started (a missing path; a PermissionError takes the same clause).
LaunchErrors == {Str("[Errno 2] No such file or directory: './opensplat'")}

\* str(e) of the FileNotFoundError raised by os.path.getsize.
GetsizeError == Str("[Errno 2] No such file or directory")

\* str(e) of an exception raised by the executor outside its try block:
\* get_param_str() of a test case whose params is None, or a print of the
\* start banner that fails.
ExecutorFault == Str("'NoneType' object has no attribute 'items'")

TestName(i) == "t" \o ToString(i)

OutputFile(name) == "./output/" \o name \o ".ply"

TestResult(tc, ok, out, gpu, err) ==
    [test_case |-> tc, success |-> ok, output_file |-> out,
     gpu_id |-> gpu, error_msg |-> err]

\* quick_test's result tuple (name, desc, success, duration, size_mb, gpu_id)
QuickResult(name, ok, size, gpu) ==
    [test_case |-> name, success |-> ok, size_mb |-> size, gpu_id |-> gpu]

VARIABLES
    script,        \* which program runs
    max_workers,   \* self.max_workers / args.parallel
    test_cases,    \* the input list, as the sequence of the names
    pc,            \* the main thread: "serial", "parallel", "returned", "raised"
    idx,           \* 0-based index of the next test case to call or submit
    queue,         \* ThreadPoolExecutor work queue (indices, FIFO)
    proc,          \* per test case: the external process and what it did
    future,        \* per test case: the pending / returned / raised call
    yielded,       \* indices as_completed has handed to the main thread
    results,       \* the result list
    completed,     \* the progress counter
    os_environ,    \* os.environ of the script: its CUDA_VISIBLE_DEVICES entry
    print_lock,    \* self._print_lock is held
    thread,        \* per thread: where it is in _safe_print, calls left
    durations,     \* r.duration of every outcome, in the order of results
    total_duration,\* main: time.time() - start_time around run_all_tests
    report,        \* what generate_report built
    summary,       \* the speedup line of main
    models,        \* compare_results: the models handed to print_comparison
    groups,        \* compare_results: the groups print_comparison built
    ply,           \* parse_ply_header: the file at file_path
    fpos,          \* parse_ply_header: the next line f.readline() returns
    header,        \* parse_ply_header: the lines added to header so far
    num_points     \* parse_ply_header: the value returned

\* The state of the scheduler and of the executor.
sched_vars == <<script, max_workers, test_cases, pc, idx, queue, proc, future,
                yielded, results, completed, os_environ>>

\* The console lock, the report and summary of main, compare_results.py.
print_vars == <<print_lock, thread>>

main_vars == <<durations, total_duration, report, summary>>

compare_vars == <<models, groups, ply, fpos, header, num_points>>

vars == <<sched_vars, print_vars, main_vars, compare_vars>>

NumTests == Len(test_cases)

Indices == 0 .. (NumTests - 1)

Name(i) == test_cases[i + 1]

\* gpu_id is the executor's argument, env the CUDA_VISIBLE_DEVICES entry of
\* the environment handed to subprocess.run ("" while nothing was handed),
\* exc the str(e) of an exception raised before a process existed.
NoProc == [status |-> "none", gpu_id |-> -1, env |-> "", exc |-> None,
           code |-> 0, stderr |-> EmptyStr, artifact |-> FALSE]

Pending == [kind |-> "pending", value |-> None]

Returned(r) == [kind |-> "result", value |-> r]

Raised(e) == [kind |-> "exception", value |-> e]

\* Test cases whose call has begun and has neither returned nor raised.
InCall == {i \in Indices : proc[i].status # "none" /\ future[i].kind = "pending"}

\* Test cases whose external process is alive.
Running == {i \in Indices : proc[i].status = "running"}

\* os.environ of the script when it starts: no GPU is selected.
AmbientEnviron == [PATH |-> "/usr/bin", CUDA_VISIBLE_DEVICES |-> "unset"]

\* self._print_lock = threading.Lock(): unlocked, no thread prints.
NoPrinting == print_lock = FALSE /\ thread = <<>>

NoReport == [rows |-> <<>>, failures |-> <<>>]

NoSummary == [kind |-> "none", num |-> 0, den |-> 1]

\* main before run_all_tests returned: nothing is measured or reported.
NoMain ==
    /\ durations = <<>>
    /\ total_duration = 0
    /\ report = NoReport
    /\ summary = NoSummary

\* parse_ply_header is not called.
NoParse ==
    /\ ply = [exists |-> FALSE, lines |-> <<>>]
    /\ fpos = 1
    /\ header = <<>>
    /\ num_points = -1

\* compare_results.py does not run.
NoCompare == models = <<>> /\ groups = <<>> /\ NoParse

\* Variant: a pool size below 1 is rejected before anything is scheduled.
Branch_Validating(w) ==
    IF w < 1 THEN "raised" ELSE IF w = 1 THEN "serial" ELSE "parallel"

\* if self.max_workers <= 1: the serial loop, else: the pool.
Branch(w) == IF w <= 1 THEN "serial" ELSE "parallel"

\* The state at the entry of the scheduler, for any pool size (argparse
\* takes any int for -p) and any bounded list of test cases with distinct
\* names.
Setup ==
    /\ max_workers \in -1 .. MaxW
    /\ os_environ = AmbientEnviron
    /\ NoPrinting
    /\ NoMain
    /\ NoCompare
    /\ \E n \in 0 .. MaxN : test_cases = [k \in 1 .. n |-> TestName(k - 1)]
    /\ pc = Branch(max_workers)
    /\ idx = 0
    /\ queue = <<>>
    /\ proc = [i \in Indices |-> NoProc]
    /\ future = [i \in Indices |-> Pending]
    /\ yielded = {}
    /\ results = <<>>
    /\ completed = 0

\* python3 opensplat_param_test_quick.py: OpenSplatTester.run_all_tests
Init == script = "opensplat_param_test_quick" /\ Setup

\* python3 quick_test.py: run_serial / run_parallel
QuickInit == script = "quick_test" /\ Setup

(***************************************************************************)
(* The executor: OpenSplatTester.run_single_test and quick_test.run_test.  *)
(***************************************************************************)

\* The ways one process can exit that the executor can tell apart: the
\* status, the artifact file when the status is zero, and the stderr text
\* when it is not (run_test only prints stderr, so there it is left out).
ExitEvents ==
    {[code |-> 0, stderr |-> EmptyStr, artifact |-> TRUE],
     [code |-> 0, stderr |-> EmptyStr, artifact |-> FALSE]}
    \cup {[code |-> 1, stderr |-> s, artifact |-> FALSE] :
              s \in IF script = "quick_test" THEN {EmptyStr} ELSE StderrTexts}

\* Variant: no except Exception clause, the OSError leaves the executor.
OnLaunchError_Unhandled(name, gpu, e) == Raised(e)

\* except Exception as e: (subprocess.run could not start the tool)
OnLaunchError(name, gpu, e) ==
    Returned(TestResult(name, FALSE, OutputFile(name), gpu, e))

\* Variant: no TimeoutExpired clause, the except Exception clause reports it.
OnTimeout_AsGeneric(name, gpu) ==
    Returned(TestResult(name, FALSE, OutputFile(name), gpu,
                        Str("Command timed out")))

\* except subprocess.TimeoutExpired:
OnTimeout(name, gpu) ==
    Returned(TestResult(name, FALSE, OutputFile(name), gpu, Str("Timeout")))

\* Variant: the artifact size is not read, a zero exit is always a success.
OnExit_NoGetsize(name, gpu, code, stderr, artifact) ==
    IF code = 0
    THEN Returned(TestResult(name, TRUE, OutputFile(name), gpu, None))
    ELSE Returned(TestResult(name, FALSE, OutputFile(name), gpu,
                             IF stderr.len > 0 THEN stderr
                                               ELSE Str("Unknown error")))

\* Variant: the outcome stores error_msg[:200] instead of error_msg.
OnExit_Truncating(name, gpu, code, stderr, artifact) ==
    IF code = 0
    THEN IF artifact
         THEN Returned(TestResult(name, TRUE, OutputFile(name), gpu, None))
         ELSE Returned(TestResult(name, FALSE, OutputFile(name), gpu, GetsizeError))
    ELSE Returned(TestResult(name, FALSE, OutputFile(name), gpu,
                             IF stderr.len > 0 THEN Cut(stderr, PrintCut)
                                               ELSE Str("Unknown error")))

\* subprocess.run returned: the returncode test, os.path.getsize inside the
\* try block, and the except Exception clause that catches its failure.
OnExit(name, gpu, code, stderr, artifact) ==
    IF code = 0
    THEN IF artifact
         THEN Returned(TestResult(name, TRUE, OutputFile(name), gpu, None))
         ELSE Returned(TestResult(name, FALSE, OutputFile(name), gpu, GetsizeError))
    ELSE Returned(TestResult(name, FALSE, OutputFile(name), gpu,
                             IF stderr.len > 0 THEN stderr
                                               ELSE Str("Unknown error")))

\* quick_test.run_test after subprocess.run returned; nothing is caught.
QuickOnExit(name, gpu, code, artifact) ==
    IF code = 0
    THEN IF artifact THEN Returned(QuickResult(name, TRUE, 1, gpu))
                     ELSE Raised(GetsizeError)
    ELSE Returned(QuickResult(name, FALSE, 0, gpu))

\* env = os.environ.copy(); env["CUDA_VISIBLE_DEVICES"] = str(gpu_id):
\* the environment handed to subprocess.run.
ChildEnv(gpu) == [os_environ EXCEPT !.CUDA_VISIBLE_DEVICES = ToString(gpu)]

\* Variant: env = os.environ, the assignment writes the script's environment.
EnvironAfterCall_NoCopy(gpu) ==
    [os_environ EXCEPT !.CUDA_VISIBLE_DEVICES = ToString(gpu)]

\* os.environ after the executor built env: the assignment went to the copy.
EnvironAfterCall(gpu) == os_environ

\* The call of the executor for test case i with gpu_id = gpu, up to the
\* spawn of the process: it raises before the try block, or the spawn
\* fails, or the process runs with CUDA_VISIBLE_DEVICES = str(gpu_id).
Call(i, gpu) ==
    \/ /\ proc' = [proc EXCEPT ![i] = [NoProc EXCEPT !.status = "fault", !.gpu_id = gpu,
                                     !.exc = ExecutorFault]]
       /\ future' = [future EXCEPT ![i] = Raised(ExecutorFault)]
       /\ UNCHANGED os_environ
    \/ \E e \in LaunchErrors :
          /\ proc' = [proc EXCEPT ![i] =
                         [NoProc EXCEPT !.status = "nolaunch", !.gpu_id = gpu,
                                        !.env = ChildEnv(gpu).CUDA_VISIBLE_DEVICES,
                                        !.exc = e]]
          /\ future' = [future EXCEPT ![i] =
                           IF script = "quick_test"
                           THEN Raised(e)
                           ELSE OnLaunchError(Name(i), gpu, e)]
          /\ os_environ' = EnvironAfterCall(gpu)
    \/ /\ proc' = [proc EXCEPT ![i] =
                      [NoProc EXCEPT !.status = "running", !.gpu_id = gpu,
                                     !.env = ChildEnv(gpu).CUDA_VISIBLE_DEVICES]]
       /\ os_environ' = EnvironAfterCall(gpu)
       /\ UNCHANGED future

\* The external process of test case i exits by itself.
ProcExit(i) ==
    /\ proc[i].status = "running"
    /\ \E ev \in ExitEvents :
          /\ proc' = [proc EXCEPT ![i] =
                         [@ EXCEPT !.status = "exited", !.code = ev.code,
                                   !.stderr = ev.stderr, !.artifact = ev.artifact]]
          /\ future' = [future EXCEPT ![i] =
                           IF script = "quick_test"
                           THEN QuickOnExit(Name(i), proc[i].gpu_id, ev.code, ev.artifact)
                           ELSE OnExit(Name(i), proc[i].gpu_id, ev.code, ev.stderr,
                                       ev.artifact)]
    /\ UNCHANGED <<script, max_workers, test_cases, pc, idx, queue, yielded,
                   results, completed>>
    /\ UNCHANGED <<os_environ, print_vars, main_vars, compare_vars>>

\* Variant: after a timeout the test case is given back to be run again.
ProcTimeout_Retry(i) ==
    /\ i \in Indices
    /\ script = "opensplat_param_test_quick"
    /\ proc[i].status = "running"
    /\ proc' = [proc EXCEPT ![i] = NoProc]
    /\ UNCHANGED future
    /\ UNCHANGED <<script, max_workers, test_cases, pc, idx, queue, yielded,
                   results, completed>>
    /\ UNCHANGED <<os_environ, print_vars, main_vars, compare_vars>>

\* subprocess.run(..., timeout=self.timeout): the process is still alive
\* when the timeout elapses; run() kills it and raises TimeoutExpired.
\* quick_test.run_test passes no timeout.
ProcTimeout(i) ==
    /\ i \in Indices
    /\ script = "opensplat_param_test_quick"
    /\ proc[i].status = "running"
    /\ proc' = [proc EXCEPT ![i] = [@ EXCEPT !.status = "killed"]]
    /\ future' = [future EXCEPT ![i] = OnTimeout(Name(i), proc[i].gpu_id)]
    /\ UNCHANGED <<script, max_workers, test_cases, pc, idx, queue, yielded,
                   results, completed>>
    /\ UNCHANGED <<os_environ, print_vars, main_vars, compare_vars>>

(***************************************************************************)
(* The schedulers: run_all_tests, run_serial, run_parallel.                *)
(***************************************************************************)

\* Variant: every test case is sent to GPU 0.
gpu_assignments_AlwaysZero(i) == 0

\* gpu_assignments = [i % max_workers for i in range(len(test_cases))]
gpu_assignments(i) == i % max_workers

\* Variant: the pool admits one call more than max_workers.
WorkerFree_OneExtra == Cardinality(InCall) <= max_workers

\* Variant: the pool runs in batches, a new call starts only when no call
\* is in progress.
WorkerFree_WhenIdle == InCall = {}

\* Variant: a slot is leased, a call starts only when no call in progress
\* has the slot of the oldest queued call.
WorkerFree_SlotLeased ==
    /\ Cardinality(InCall) < max_workers
    /\ queue # <<>> => \A i \in InCall : proc[i].gpu_id # Head(queue).gpu_id

\* ThreadPoolExecutor(max_workers): a worker thread is free to take the next
\* queued call.
WorkerFree == Cardinality(InCall) < max_workers

\* results.append(result) after future.result() returned r.
OnFutureResult(rs, r) == Append(rs, r)

\* Variant: the except branch counts the test case but appends nothing.
OnFutureException_Dropped(rs, i, e) == rs

\* Variant: the except branch takes the slot from the completion counter.
OnFutureException_SlotByCompletion(rs, i, e) ==
    Append(rs, IF script = "quick_test"
               THEN QuickResult(Name(i), FALSE, 0, completed % max_workers)
               ELSE TestResult(Name(i), FALSE, "", completed % max_workers, e))

\* except Exception as e: around future.result() for test case index i.
OnFutureException(rs, i, e) ==
    Append(rs, IF script = "quick_test"
               THEN QuickResult(Name(i), FALSE, 0, gpu_assignments(i))
               ELSE TestResult(Name(i), FALSE, "", gpu_assignments(i), e))

\* Serial branch: the loop body calls the executor with gpu_id = 0.
SerialCall ==
    /\ pc = "serial"
    /\ idx < NumTests
    /\ proc[idx].status = "none"
    /\ Call(idx, 0)
    /\ UNCHANGED <<script, max_workers, test_cases, pc, idx, queue, yielded,
                   results, completed>>
    /\ UNCHANGED <<print_vars, main_vars, compare_vars>>

\* Variant: results.insert(0, result), the newest outcome comes first.
SerialNext_Prepend ==
    /\ pc = "serial"
    /\ idx < NumTests
    /\ future[idx].kind # "pending"
    /\ IF future[idx].kind = "result"
       THEN /\ results' = <<future[idx].value>> \o results
            /\ idx' = idx + 1
            /\ pc' = pc
       ELSE /\ pc' = "raised"
            /\ UNCHANGED <<results, idx>>
    /\ UNCHANGED <<script, max_workers, test_cases, queue, proc, future,
                   yielded, completed>>
    /\ UNCHANGED <<os_environ, print_vars, main_vars, compare_vars>>

\* Serial branch: the call returned and its result is appended, or it
\* raised and the exception leaves the loop and the scheduler.
SerialNext ==
    /\ pc = "serial"
    /\ idx < NumTests
    /\ future[idx].kind # "pending"
    /\ IF future[idx].kind = "result"
       THEN /\ results' = Append(results, future[idx].value)
            /\ idx' = idx + 1
            /\ pc' = pc
       ELSE /\ pc' = "raised"
            /\ UNCHANGED <<results, idx>>
    /\ UNCHANGED <<script, max_workers, test_cases, queue, proc, future,
                   yielded, completed>>
    /\ UNCHANGED <<os_environ, print_vars, main_vars, compare_vars>>

\* Parallel branch: executor.submit(run_single_test, test_case, gpu_id) for
\* the next test case, in input order.
Submit ==
    /\ pc = "parallel"
    /\ idx < NumTests
    /\ queue' = Append(queue, [index |-> idx, gpu_id |-> gpu_assignments(idx)])
    /\ idx' = idx + 1
    /\ UNCHANGED <<script, max_workers, test_cases, pc, proc, future, yielded,
                   results, completed>>
    /\ UNCHANGED <<os_environ, print_vars, main_vars, compare_vars>>

\* Parallel branch: a free worker thread takes the oldest queued call.
WorkerStart ==
    /\ pc = "parallel"
    /\ queue # <<>>
    /\ WorkerFree
    /\ Call(Head(queue).index, Head(queue).gpu_id)
    /\ queue' = Tail(queue)
    /\ UNCHANGED <<script, max_workers, test_cases, pc, idx, yielded, results,
                   completed>>
    /\ UNCHANGED <<print_vars, main_vars, compare_vars>>

\* Parallel branch: as_completed yields a finished future (after every
\* submit), and the loop body appends its outcome.
Collect(i) ==
    /\ i \in Indices
    /\ pc = "parallel"
    /\ idx = NumTests
    /\ i \notin yielded
    /\ future[i].kind # "pending"
    /\ yielded' = yielded \cup {i}
    /\ completed' = completed + 1
    /\ results' = IF future[i].kind = "result"
                  THEN OnFutureResult(results, future[i].value)
                  ELSE OnFutureException(results, i, future[i].value)
    /\ UNCHANGED <<script, max_workers, test_cases, pc, idx, queue, proc, future>>
    /\ UNCHANGED <<os_environ, print_vars, main_vars, compare_vars>>

\* return results
Return ==
    /\ \/ pc = "serial"
       \/ pc = "parallel" /\ yielded = Indices
    /\ idx = NumTests
    /\ pc' = "returned"
    /\ UNCHANGED <<script, max_workers, test_cases, idx, queue, proc, future,
                   yielded, results, completed>>
    /\ UNCHANGED <<os_environ, print_vars, main_vars, compare_vars>>

Next ==
    \/ SerialCall
    \/ SerialNext
    \/ Submit
    \/ WorkerStart
    \/ \E i \in Indices : ProcExit(i)
    \/ \E i \in Indices : ProcTimeout(i)
    \/ \E i \in Indices : Collect(i)
    \/ Return

Spec == Init /\ [][Next]_vars

\* quick_test.py has the same schedulers around run_test, which passes no
\* timeout to subprocess.run.
QuickNext ==
    \/ SerialCall
    \/ SerialNext
    \/ Submit
    \/ WorkerStart
    \/ \E i \in Indices : ProcExit(i)
    \/ \E i \in Indices : Collect(i)
    \/ Return

QuickSpec == QuickInit /\ [][QuickNext]_vars

\* The worker threads and the main thread are scheduled fairly; nothing is
\* assumed about when, or whether, an external process exits by itself.
FairSpec ==
    /\ Spec
    /\ WF_vars(Submit)
    /\ WF_vars(WorkerStart)
    /\ WF_vars(SerialCall)
    /\ WF_vars(SerialNext)
    /\ \A i \in 0 .. (MaxN - 1) : WF_vars(Collect(i))
    /\ WF_vars(Return)

\* As FairSpec, and the timeout of subprocess.run is finite: a process that
\* stays alive is killed when it elapses.  Still nothing is assumed about a
\* process exiting by itself.
TimeoutFairSpec ==
    /\ FairSpec
    /\ \A i \in 0 .. (MaxN - 1) : WF_vars(ProcTimeout(i))

(***************************************************************************)
(* The console: OpenSplatTester._safe_print in a parallel run.  Thread 0   *)
(* is the main thread inside the as_completed loop, threads 1 to           *)
(* max_workers are the pool's workers inside run_single_test.              *)
(***************************************************************************)

\* Largest number of lines one thread prints.
MaxPrints == 2

\* The scheduler state is left out of a specification of another part.
Quiet ==
    /\ test_cases = <<>>
    /\ idx = 0
    /\ queue = <<>>
    /\ proc = <<>>
    /\ future = <<>>
    /\ yielded = {}
    /\ completed = 0
    /\ os_environ = AmbientEnviron

\* The pool is up: every thread is outside _safe_print and has some lines
\* to print, the lock is free.
PrintInit ==
    /\ script = "opensplat_param_test_quick"
    /\ max_workers \in 2 .. MaxW
    /\ pc = "parallel"
    /\ results = <<>>
    /\ Quiet
    /\ print_lock = FALSE
    /\ \E n \in [0 .. max_workers -> 1 .. MaxPrints] :
          thread = [t \in 0 .. max_workers |-> [at |-> "out", left |-> n[t]]]
    /\ NoMain
    /\ NoCompare

Threads == DOMAIN thread

\* Threads between the acquire and the release of the lock: they write.
Printing == {t \in Threads : thread[t].at = "printing"}

\* Threads blocked at the with statement.
Waiting == {t \in Threads : thread[t].at = "waiting"}

\* self._safe_print(...) is called and reaches "with self._print_lock:".
SafePrint(t) ==
    /\ t \in Threads
    /\ thread[t].at = "out"
    /\ thread[t].left > 0
    /\ thread' = [thread EXCEPT ![t] = [at |-> "waiting", left |-> @.left - 1]]
    /\ UNCHANGED <<print_lock, sched_vars, main_vars, compare_vars>>

\* Variant: print(...) without the with statement.
Acquire_Unlocked(t) ==
    /\ t \in Threads
    /\ thread[t].at = "waiting"
    /\ thread' = [thread EXCEPT ![t].at = "printing"]
    /\ UNCHANGED <<print_lock, sched_vars, main_vars, compare_vars>>

\* with self._print_lock: the lock is free and the thread takes it.
Acquire(t) ==
    /\ t \in Threads
    /\ thread[t].at = "waiting"
    /\ print_lock = FALSE
    /\ print_lock' = TRUE
    /\ thread' = [thread EXCEPT ![t].at = "printing"]
    /\ UNCHANGED <<sched_vars, main_vars, compare_vars>>

\* print(*args, **kwargs) returned or raised: the with statement releases
\* the lock either way.
Release(t) ==
    /\ t \in Threads
    /\ thread[t].at = "printing"
    /\ print_lock' = FALSE
    /\ thread' = [thread EXCEPT ![t].at = "out"]
    /\ UNCHANGED <<sched_vars, main_vars, compare_vars>>

PrintNext ==
    \/ \E t \in Threads : SafePrint(t)
    \/ \E t \in Threads : Acquire(t)
    \/ \E t \in Threads : Release(t)

PrintSpec == PrintInit /\ [][PrintNext]_vars

\* A thread that can take the lock, or that holds it, goes on.
PrintFairSpec ==
    /\ PrintSpec
    /\ \A t \in 0 .. MaxW : WF_vars(Acquire(t)) /\ WF_vars(Release(t))

(***************************************************************************)
(* The report: OpenSplatTester.generate_report, called by save_report on   *)
(* any list of outcomes.                                                   *)
(***************************************************************************)

\* os.path.basename(path): what follows the last "/".
Basename(path) ==
    LET slashes == {k \in 1 .. Len(path) : SubSeq(path, k, k) = "/"}
        last    == CHOOSE k \in slashes : \A l \in slashes : l <= k
    IN  IF slashes = {} THEN path ELSE SubSeq(path, last + 1, Len(path))

\* One line of the summary table.
ReportRow(r) ==
    [name |-> r.test_case,
     status |-> IF r.success THEN "success" ELSE "failed",
     gpu_id |-> r.gpu_id,
     output_name |-> Basename(r.output_file)]

\* One entry of the failure section: error_msg[:500], or 'Unknown' for a
\* message that is None or empty.
FailureEntry(r) ==
    [name |-> r.test_case,
     error |-> IF r.error_msg.len > 0 THEN Cut(r.error_msg, ReportCut)
                                     ELSE Str("Unknown")]

\* Variant: the failure section lists the outcomes that carry a message.
GenerateReport_ByErrorMsg(rs) ==
    LET HasMessage(r) == r.error_msg.len > 0
        failed_results == SelectSeq(rs, HasMessage)
    IN  [rows |-> [k \in 1 .. Len(rs) |-> ReportRow(rs[k])],
         failures |-> [k \in 1 .. Len(failed_results) |->
                          FailureEntry(failed_results[k])]]

\* generate_report(results): the rows of the summary table and the entries
\* of the failure section, in the order they are written.
GenerateReport(rs) ==
    LET NotSuccess(r) == ~r.success
        failed_results == SelectSeq(rs, NotSuccess)
    IN  [rows |-> [k \in 1 .. Len(rs) |-> ReportRow(rs[k])],
         failures |-> [k \in 1 .. Len(failed_results) |->
                          FailureEntry(failed_results[k])]]

\* The outcomes a result list may hold: a success, a failure with a long
\* message, a failure with an empty one; names may repeat.
ReportOutcomes ==
    {TestResult(TestName(i), TRUE, OutputFile(TestName(i)), 0, None) : i \in 0 .. 1}
    \cup {TestResult(TestName(i), FALSE, OutputFile(TestName(i)), 0, e) :
              i \in 0 .. 1, e \in StderrTexts}

\* save_report is about to be called with some list of outcomes.
ReportInit ==
    /\ script = "opensplat_param_test_quick"
    /\ max_workers = 1
    /\ pc = "main"
    /\ \E n \in 0 .. MaxN : results \in [1 .. n -> ReportOutcomes]
    /\ Quiet
    /\ NoPrinting
    /\ NoMain
    /\ NoCompare

\* save_report: report = self.generate_report(results)
SaveReport ==
    /\ pc = "main"
    /\ report' = GenerateReport(results)
    /\ pc' = "reported"
    /\ UNCHANGED <<script, max_workers, test_cases, idx, queue, proc, future,
                   yielded, results, completed, os_environ>>
    /\ UNCHANGED <<durations, total_duration, summary, print_vars, compare_vars>>

ReportNext == SaveReport

ReportSpec == ReportInit /\ [][ReportNext]_vars

(***************************************************************************)
(* The run summary of main: the speedup line.  Time is counted in ticks of *)
(* the clock that time.time() reads.                                       *)
(***************************************************************************)

\* Largest elapsed time of a whole run, in ticks.
MaxT == 2

RECURSIVE SumSeq(_)
\* sum(r.duration for r in results)
SumSeq(ds) == IF ds = <<>> THEN 0 ELSE Head(ds) + SumSeq(Tail(ds))

\* x / y of two floats: the quotient as numerator and denominator, or the
\* ZeroDivisionError that a zero divisor raises.
Quotient(x, y) ==
    IF y = 0 THEN [kind |-> "ZeroDivisionError", num |-> x, den |-> y]
             ELSE [kind |-> "ratio", num |-> x, den |-> y]

\* Variant: the ratio is also reported when the two times are equal.
Speedup_WhenNotLarger(parallel, total, ds) ==
    IF (script = "quick_test" => parallel > 1) /\ total <= SumSeq(ds)
    THEN Quotient(SumSeq(ds), total)
    ELSE NoSummary

\* if total_duration < sum(...): print(sum(...) / total_duration);
\* quick_test.py: if args.parallel > 1 and total_duration < total_time.
Speedup(parallel, total, ds) ==
    IF (script = "quick_test" => parallel > 1) /\ total < SumSeq(ds)
    THEN Quotient(SumSeq(ds), total)
    ELSE NoSummary

\* The scheduler has returned.  Every duration was measured between two
\* readings of the clock taken inside the interval that main measured, and
\* readings taken later are not smaller: the whole run took T ticks and
\* outcome k ran from tick iv[k][1] to tick iv[k][2] of them.
SummaryInit ==
    /\ script \in {"opensplat_param_test_quick", "quick_test"}
    /\ max_workers \in 1 .. MaxW
    /\ pc = "main"
    /\ \E T \in 0 .. MaxT, n \in 0 .. MaxN :
          \E iv \in [1 .. n -> {p \in (0 .. T) \X (0 .. T) : p[1] <= p[2]}] :
              /\ total_duration = T
              /\ durations = [k \in 1 .. n |-> iv[k][2] - iv[k][1]]
              /\ results = [k \in 1 .. n |->
                               IF script = "quick_test"
                               THEN QuickResult(TestName(k - 1), TRUE, 1, 0)
                               ELSE TestResult(TestName(k - 1), TRUE,
                                               OutputFile(TestName(k - 1)), 0, None)]
    /\ Quiet
    /\ NoPrinting
    /\ report = NoReport
    /\ summary = NoSummary
    /\ NoCompare

\* main: the summary block with the speedup test.
PrintSummary ==
    /\ pc = "main"
    /\ summary' = Speedup(max_workers, total_duration, durations)
    /\ pc' = "summarized"
    /\ UNCHANGED <<script, max_workers, test_cases, idx, queue, proc, future,
                   yielded, results, completed, os_environ>>
    /\ UNCHANGED <<durations, total_duration, report, print_vars, compare_vars>>

SummaryNext == PrintSummary

SummarySpec == SummaryInit /\ [][SummaryNext]_vars

(***************************************************************************)
(* compare_results.py: the grouping of print_comparison.  A model is       *)
(* known by its position in the list (the code uses id(m)), its name is    *)
(* the string at that position.                                            *)
(***************************************************************************)

\* Largest number of models in the list.
MaxModels == 2

\* pat in s
In(pat, s) ==
    \E k \in 1 .. (Len(s) - Len(pat) + 1) : SubSeq(s, k, k + Len(pat) - 1) = pat

\* The named groups of the dict, by the test of their list comprehension.
NamedCategories ==
    {"iters", "scale", "sh", "ssim", "refine", "grad", "size", "combined"}

Matches(c, name) ==
    CASE c = "iters"    -> In("iters_", name)
      [] c = "scale"    -> In("scale_", name)
      [] c = "sh"       -> In("sh_", name)
      [] c = "ssim"     -> In("ssim_", name)
      [] c = "refine"   -> In("refine_", name)
      [] c = "grad"     -> In("grad_", name)
      [] c = "size"     -> In("size_", name)
      [] c = "combined" -> name \in {"baseline", "fast_preview", "quality"}

\* [m for m in models if ...]: the positions, in list order, that pass
\* the test of group c.
Members(ms, c) ==
    LET Pass(k) == Matches(c, ms[k])
    IN  SelectSeq([k \in 1 .. Len(ms) |-> k], Pass)

Range(f) == {f[x] : x \in DOMAIN f}

\* Variant: the catch-all group is left as the dict literal made it.
Groups_NoCatchAll(ms) ==
    [c \in NamedCategories \cup {"other"} |->
        IF c = "other" THEN <<>> ELSE Members(ms, c)]

\* groups = {...}; assigned = the ids in any group; groups["other"] = the
\* models whose id is not assigned.
Groups(ms) ==
    LET named == [c \in NamedCategories |-> Members(ms, c)]
        assigned == UNION {Range(named[c]) : c \in NamedCategories}
        others == SelectSeq([k \in 1 .. Len(ms) |-> k],
                            LAMBDA k : k \notin assigned)
    IN  [c \in NamedCategories \cup {"other"} |->
            IF c = "other" THEN others ELSE named[c]]

\* Names of result files: one for each rule, one that two rules match, one
\* that holds "sh_" inside a word, and names no rule matches.
ModelNames ==
    {"iters_5000", "scale_2", "sh_1", "ssim_0.5", "refine_iters_100",
     "grad_0.001", "size_0.1", "baseline", "quality_v2", "custom", "fresh_1"}

\* print_comparison is about to be called with some list of models.
CompareInit ==
    /\ script = "compare_results"
    /\ max_workers = 1
    /\ pc = "compare"
    /\ results = <<>>
    /\ Quiet
    /\ NoPrinting
    /\ NoMain
    /\ \E n \in 0 .. MaxModels : models \in [1 .. n -> ModelNames]
    /\ groups = <<>>
    /\ NoParse

\* print_comparison(models), up to the loop that prints the groups.
PrintComparison ==
    /\ pc = "compare"
    /\ groups' = Groups(models)
    /\ pc' = "compared"
    /\ UNCHANGED <<script, max_workers, test_cases, idx, queue, proc, future,
                   yielded, results, completed, os_environ>>
    /\ UNCHANGED <<models, ply, fpos, header, num_points, print_vars, main_vars>>

CompareNext == PrintComparison

CompareSpec == CompareInit /\ [][CompareNext]_vars

(***************************************************************************)
(* compare_results.py: parse_ply_header.  The file is a sequence of lines, *)
(* each a text with its length in bytes, the newline included.             *)
(***************************************************************************)

\* Largest number of lines in the file.
MaxLines == 3

\* A line of s and its newline.
Line(s) == Text(s, Len(s) + 1)

\* A comment line so long that two of them exceed the budget.
LongComment == Text("comment", (HeaderBudget \div 2) + 1)

\* The lines a file is made of.
PlyLines ==
    {Line("ply"), Line("element vertex 12"), Line("element vertex 7"),
     Line("element vertex abc"), Line("element vertex"), Line("end_header"),
     LongComment}

\* s.startswith(prefix)
StartsWith(s, prefix) ==
    Len(s) >= Len(prefix) /\ SubSeq(s, 1, Len(prefix)) = prefix

RECURSIVE Split(_)
\* s.split(): the words between the blanks.
Split(s) ==
    IF s = "" THEN <<>>
    ELSE IF SubSeq(s, 1, 1) = " " THEN Split(SubSeq(s, 2, Len(s)))
    ELSE LET blanks == {k \in 1 .. Len(s) : SubSeq(s, k, k) = " "}
             e == IF blanks = {} THEN Len(s) + 1
                  ELSE CHOOSE k \in blanks : \A l \in blanks : k <= l
         IN  <<SubSeq(s, 1, e - 1)>> \o Split(SubSeq(s, e, Len(s)))

IsDecimal(t) ==
    /\ t # ""
    /\ \A k \in 1 .. Len(t) : \E d \in 0 .. 9 : ToString(d) = SubSeq(t, k, k)

RECURSIVE IntOf(_)
\* int(t) of a decimal numeral.
IntOf(t) ==
    IF t = "" THEN 0
    ELSE IntOf(SubSeq(t, 1, Len(t) - 1)) * 10
         + (CHOOSE d \in 0 .. 9 : ToString(d) = SubSeq(t, Len(t), Len(t)))

RECURSIVE HeaderLen(_)
\* len(header)
HeaderLen(h) == IF h = <<>> THEN 0 ELSE Head(h).len + HeaderLen(Tail(h))

\* The positions of the lines of h that start with 'element vertex'.
VertexLines(h) == {k \in 1 .. Len(h) : StartsWith(h[k].txt, "element vertex")}

\* return int(parts[2]) of one line; the IndexError of a line with fewer
\* than three words and the ValueError of int() end in the except clause
\* and in return 0.
CountOf(line) ==
    LET parts == Split(line.txt)
    IN  IF Len(parts) < 3 THEN 0
        ELSE IF IsDecimal(parts[3]) THEN IntOf(parts[3]) ELSE 0

\* Variant: the last 'element vertex' line is the one that counts.
VertexCount_LastLine(h) ==
    IF VertexLines(h) = {} THEN 0
    ELSE CountOf(h[CHOOSE k \in VertexLines(h) : \A l \in VertexLines(h) : l <= k])

\* for line in header_str.split('\n'): the first line that starts with
\* 'element vertex' decides; return 0 when there is none.
VertexCount(h) ==
    IF VertexLines(h) = {} THEN 0
    ELSE CountOf(h[CHOOSE k \in VertexLines(h) : \A l \in VertexLines(h) : k <= l])

\* parse_ply_header(file_path) is called; the file is missing or holds any
\* bounded sequence of lines.
ParseInit ==
    /\ script = "compare_results"
    /\ max_workers = 1
    /\ pc = "open"
    /\ results = <<>>
    /\ Quiet
    /\ NoPrinting
    /\ NoMain
    /\ models = <<>>
    /\ groups = <<>>
    /\ \/ ply = [exists |-> FALSE, lines |-> <<>>]
       \/ \E n \in 0 .. MaxLines :
             \E ls \in [1 .. n -> PlyLines] : ply = [exists |-> TRUE, lines |-> ls]
    /\ fpos = 1
    /\ header = <<>>
    /\ num_points = -1

\* with open(file_path, 'rb') as f: a missing file raises, the except
\* clause swallows it and 0 is returned.
OpenPly ==
    /\ pc = "open"
    /\ IF ply.exists
       THEN pc' = "reading" /\ UNCHANGED num_points
       ELSE pc' = "returned" /\ num_points' = 0
    /\ UNCHANGED <<script, max_workers, test_cases, idx, queue, proc, future,
                   yielded, results, completed, os_environ>>
    /\ UNCHANGED <<models, groups, ply, fpos, header, print_vars, main_vars>>

\* One turn of the while True loop: f.readline() returns the next line, or
\* b"" at the end of the file; the line is added to header; the loop is
\* left when the line holds end_header or header is longer than the budget.
ReadLine ==
    /\ pc = "reading"
    /\ LET eof  == fpos > Len(ply.lines)
           line == IF eof THEN EmptyStr ELSE ply.lines[fpos]
           h    == IF eof THEN header ELSE Append(header, line)
       IN  /\ header' = h
           /\ fpos' = IF eof THEN fpos ELSE fpos + 1
           /\ pc' = IF In("end_header", line.txt) \/ HeaderLen(h) > HeaderBudget
                    THEN "parsing" ELSE "reading"
    /\ UNCHANGED <<script, max_workers, test_cases, idx, queue, proc, future,
                   yielded, results, completed, os_environ>>
    /\ UNCHANGED <<models, groups, ply, num_points, print_vars, main_vars>>

\* After the loop: the header is decoded, split into lines and searched.
ParseHeader ==
    /\ pc = "parsing"
    /\ num_points' = VertexCount(header)
    /\ pc' = "returned"
    /\ UNCHANGED <<script, max_workers, test_cases, idx, queue, proc, future,
                   yielded, results, completed, os_environ>>
    /\ UNCHANGED <<models, groups, ply, fpos, header, print_vars, main_vars>>

ParseNext ==
    \/ OpenPly
    \/ ReadLine
    \/ ParseHeader

ParseSpec == ParseInit /\ [][ParseNext]_vars

(***************************************************************************)
(* Properties.                                                             *)
(***************************************************************************)

\* Positions in the result list of the outcomes of test case i.
OutcomesOf(i) == {k \in 1 .. Len(results) : results[k].test_case = Name(i)}

IsOpenSplat == script = "opensplat_param_test_quick"

\* C1: when run_all_tests returns with max_workers >= 1, the result list
\* holds exactly one outcome for each of the N submitted test cases and no
\* call is queued or in progress, whatever the test cases ended with.
C1_OneOutcomePerSpec ==
    (IsOpenSplat /\ pc = "returned" /\ max_workers >= 1) =>
        /\ Len(results) = NumTests
        /\ \A i \in Indices : Cardinality(OutcomesOf(i)) = 1
        /\ queue = <<>>
        /\ InCall = {}
        /\ Running = {}

\* A parallel run of three test cases has returned after a success, a
\* timeout and an exception of the executor.
C1_Witness ==
    /\ IsOpenSplat /\ pc = "returned" /\ max_workers >= 2 /\ NumTests >= 3
    /\ \E i, j, k \in Indices :
          /\ proc[i].status = "fault"
          /\ proc[j].status = "killed"
          /\ proc[k].status = "exited" /\ proc[k].code = 0 /\ proc[k].artifact

\* C2: in every scheduler path an exception raised by the execution of one
\* test case never aborts the scheduler, and at the return every test case,
\* the raising one included, has its own outcome.
C2_ExceptionDoesNotAbort ==
    max_workers >= 1 =>
        /\ pc # "raised"
        /\ pc = "returned" =>
              \A i \in Indices : Cardinality(OutcomesOf(i)) = 1

\* C3: with max_workers >= 1 the slot recorded in the outcome of the test
\* case at index i, and the CUDA_VISIBLE_DEVICES value handed to its
\* process, is i mod max_workers, also in the scheduler's exception branch.
C3_SlotIsIndexModW ==
    (IsOpenSplat /\ max_workers >= 1) =>
        \A i \in Indices :
            /\ \A k \in OutcomesOf(i) : results[k].gpu_id = i % max_workers
            /\ proc[i].env # "" => proc[i].env = ToString(i % max_workers)

\* Test case 1 of a two-worker run got its outcome from the exception
\* branch and test case 2 finished after test case 1 with a process on
\* slot 0.
C3_Witness ==
    /\ IsOpenSplat /\ max_workers = 2 /\ NumTests >= 3 /\ pc = "returned"
    /\ proc[1].status = "fault"
    /\ \E k \in OutcomesOf(1) : results[k].output_file = "" /\ results[k].gpu_id = 1
    /\ proc[2].env = "0"
    /\ \E k \in OutcomesOf(0), l \in OutcomesOf(2) : l < k

\* C4: in run_single_test a process that is still alive when the timeout
\* elapses is killed, and the outcome of its test case has success = FALSE
\* and error_msg = "Timeout"; no call ends with its process alive.
C4_TimeoutOutcome ==
    IsOpenSplat =>
        \A i \in Indices :
            /\ proc[i].status = "killed" =>
                  /\ future[i].kind = "result"
                  /\ future[i].value.success = FALSE
                  /\ future[i].value.error_msg = Str("Timeout")
                  /\ future[i].value.error_msg.len = 7
                  /\ \A k \in OutcomesOf(i) : results[k] = future[i].value
            /\ future[i].kind # "pending" => proc[i].status # "running"

\* A killed process whose Timeout outcome is in the result list.
C4_Witness ==
    /\ IsOpenSplat
    /\ \E i \in Indices :
          /\ proc[i].status = "killed"
          /\ \E k \in OutcomesOf(i) : results[k].error_msg.txt = "Timeout"

\* C5: in run_single_test a tool that cannot be started gives a returned
\* (not raised) outcome with success = FALSE and a non-empty error_msg; the
\* call is over, so it holds no worker, and the run never aborts on it.
C5_LaunchFailureOutcome ==
    IsOpenSplat =>
        \A i \in Indices :
            proc[i].status = "nolaunch" =>
                /\ future[i].kind = "result"
                /\ future[i].value.success = FALSE
                /\ future[i].value.error_msg = proc[i].exc
                /\ future[i].value.error_msg.len > 0
                /\ i \notin InCall
                /\ (pc = "raised" => \E j \in Indices \ {i} : future[j].kind = "exception")
                /\ (pc = "returned" /\ max_workers >= 1) =>
                       \A j \in Indices : Cardinality(OutcomesOf(j)) = 1

\* A parallel run returned in which the first test case could not be
\* started and a later one succeeded.
C5_Witness ==
    /\ IsOpenSplat /\ pc = "returned" /\ max_workers >= 2
    /\ \E i, j \in Indices :
          /\ i < j
          /\ proc[i].status = "nolaunch"
          /\ \E k \in OutcomesOf(j) : results[k].success

\* The outcome the executor gave to test case i (the call has returned).
OutcomeOfCall(i) == future[i].value

\* Test cases of run_single_test whose process exited by itself with a zero
\* status, and those whose process exited with a non-zero status.
ExitedZero == {i \in Indices : IsOpenSplat /\ proc[i].status = "exited" /\ proc[i].code = 0}

ExitedNonZero == {i \in Indices : IsOpenSplat /\ proc[i].status = "exited" /\ proc[i].code # 0}

\* C6 as stated: every process that exits with status zero gives
\* success = TRUE and output_file = the artifact path, whether or not the
\* process wrote the artifact file.
C6_ZeroExitAlwaysSucceeds ==
    \A i \in ExitedZero :
        /\ future[i].kind = "result"
        /\ OutcomeOfCall(i).success = TRUE
        /\ OutcomeOfCall(i).output_file = OutputFile(Name(i))

\* C6 amended: a process that exits with status zero gives success = TRUE
\* exactly when the size of the artifact file can be read; when the file
\* is missing the outcome has success = FALSE and the message of the failed
\* read as error_msg.  output_file is the artifact path in both cases.
C6_ZeroExitSucceedsIffArtifact ==
    \A i \in ExitedZero :
        /\ future[i].kind = "result"
        /\ OutcomeOfCall(i).success = proc[i].artifact
        /\ OutcomeOfCall(i).output_file = OutputFile(Name(i))
        /\ OutcomeOfCall(i).gpu_id = proc[i].gpu_id
        /\ proc[i].artifact => OutcomeOfCall(i).error_msg = None
        /\ ~proc[i].artifact => OutcomeOfCall(i).error_msg = GetsizeError

\* One run in which a zero exit with the artifact succeeded and a zero
\* exit without the artifact was recorded as a failure.
C6_Witness ==
    \E i, j \in ExitedZero :
        /\ proc[i].artifact /\ OutcomeOfCall(i).success
        /\ ~proc[j].artifact /\ ~OutcomeOfCall(j).success
        /\ OutcomesOf(i) # {} /\ OutcomesOf(j) # {}

\* C7 as stated: a non-zero exit gives success = FALSE and an error_msg
\* that is the stderr text cut to a fixed maximum length, so its length
\* never exceeds the largest cut the program applies to an error message.
C7_ErrorMsgBounded ==
    \A i \in ExitedNonZero :
        /\ future[i].kind = "result"
        /\ OutcomeOfCall(i).success = FALSE
        /\ OutcomeOfCall(i).error_msg.len <= ReportCut

\* C7 amended: a non-zero exit gives success = FALSE and an error_msg that
\* is the whole captured stderr text, of any length ("Unknown error" when
\* stderr is empty); the outcome stores no cut of it.
C7_ErrorMsgIsWholeStderr ==
    \A i \in ExitedNonZero :
        /\ future[i].kind = "result"
        /\ OutcomeOfCall(i).success = FALSE
        /\ proc[i].stderr.len > 0 =>
              /\ OutcomeOfCall(i).error_msg = proc[i].stderr
              /\ OutcomeOfCall(i).error_msg.len = proc[i].stderr.len
        /\ proc[i].stderr.len = 0 =>
              OutcomeOfCall(i).error_msg = Str("Unknown error")

\* A failed process whose stderr is longer than both display cuts, stored
\* whole in its outcome, in the result list.
C7_Witness ==
    \E i \in ExitedNonZero :
        /\ proc[i].stderr.len > ReportCut
        /\ \E k \in OutcomesOf(i) : results[k].error_msg.len > ReportCut

\* C8: in the parallel path at most max_workers external processes are
\* alive, and at most max_workers calls of the executor are in progress.
C8_AtMostWRunning ==
    (pc = "parallel" /\ max_workers > 1) =>
        /\ Cardinality(Running) <= max_workers
        /\ Cardinality(InCall) <= max_workers

\* The pool is full while a further call waits in the queue.
C8_Witness ==
    /\ IsOpenSplat /\ pc = "parallel" /\ max_workers > 1
    /\ Cardinality(Running) = max_workers
    /\ queue # <<>>

\* Test cases whose call has not begun (not submitted yet, or queued).
NotStarted == {i \in Indices : proc[i].status = "none"}

\* A test case waits although a worker of the pool is free.
IdleWorker ==
    /\ pc = "parallel"
    /\ NotStarted # {}
    /\ Cardinality(InCall) < max_workers

\* C9: the pool is work-conserving.  In the parallel path a test case
\* never keeps waiting beside a free worker: that situation always ends,
\* and the only step that ends it is the start of a waiting test case.
\* Nothing is assumed about running processes ever exiting or timing out.
C9_WorkConserving ==
    /\ IdleWorker ~> ~IdleWorker
    /\ [][(IdleWorker /\ ~IdleWorker') =>
             Cardinality(NotStarted') < Cardinality(NotStarted)]_vars

\* A test case beyond the first max_workers ones waited beside a free
\* worker and has been started, while the process of one of the first
\* max_workers test cases is still alive.
C9_Witness ==
    /\ IsOpenSplat /\ pc = "parallel"
    /\ \E i \in Running, j \in Indices :
          i < max_workers /\ j >= max_workers /\ proc[j].status # "none"

\* The (name, success, slot, error detail) view of an outcome.
View(r) == <<r.test_case, r.success, r.gpu_id, r.error_msg>>

ResultViews == {View(results[k]) : k \in 1 .. Len(results)}

\* What the outcome of test case i has to be, given only the input index,
\* max_workers and what the external tool did for that test case.
ExpectedView(i) ==
    LET slot == IF max_workers <= 1 THEN 0 ELSE i % max_workers
        err  == CASE proc[i].status = "killed" -> Str("Timeout")
                  [] proc[i].status = "exited" /\ proc[i].code = 0 /\ proc[i].artifact
                        -> None
                  [] proc[i].status = "exited" /\ proc[i].code = 0 /\ ~proc[i].artifact
                        -> GetsizeError
                  [] proc[i].status = "exited" /\ proc[i].code # 0 /\ proc[i].stderr.len > 0
                        -> proc[i].stderr
                  [] proc[i].status = "exited" /\ proc[i].code # 0 /\ proc[i].stderr.len = 0
                        -> Str("Unknown error")
                  [] OTHER -> proc[i].exc
    IN  <<Name(i), err = None, slot, err>>

\* C10: the outcomes run_all_tests returns, seen as a set of (name,
\* success, slot, error detail), are determined by the input sequence,
\* max_workers and what the tool did for each test case; the order in
\* which the calls completed and were collected has no influence.
C10_OutcomeSetIndependentOfOrder ==
    (IsOpenSplat /\ pc = "returned" /\ max_workers >= 1) =>
        /\ ResultViews = {ExpectedView(i) : i \in Indices}
        /\ Len(results) = Cardinality(ResultViews)

\* A two-worker run returned its outcomes in an order other than the
\* input order, one of them made by the scheduler's exception branch.
C10_Witness ==
    /\ IsOpenSplat /\ pc = "returned" /\ max_workers >= 2 /\ NumTests >= 3
    /\ results[1].test_case = Name(2)
    /\ results[3].test_case = Name(0)
    /\ \E i \in Indices : proc[i].status = "fault"

\* What the executor makes of test case i by itself: the success flag of
\* the outcome that belongs to what happened to its call.
Verdict(i) == proc[i].status = "exited" /\ proc[i].code = 0 /\ proc[i].artifact

NameSuccessPairs == {<<results[k].test_case, results[k].success>> : k \in 1 .. Len(results)}

\* C11: the sequential branch (max_workers = 1) and the pool branch
\* (max_workers >= 2) yield the same collection of (name, success) for the
\* same test cases and the same behaviour of the executor: every run that
\* has ended has returned, with one (name, success) pair for each test
\* case, the success flag being what the executor made of that test case.
C11_SameOutcomesInBothBranches ==
    (IsOpenSplat /\ max_workers >= 1 /\ pc \in {"returned", "raised"}) =>
        /\ pc = "returned"
        /\ NameSuccessPairs = {<<Name(i), Verdict(i)>> : i \in Indices}
        /\ Len(results) = NumTests

\* Test cases whose call has ended: it returned an outcome or raised.
Terminal == {i \in Indices : future[i].kind # "pending"}

\* C12: with max_workers = 1 the test cases run strictly one after the
\* other in input order: a test case is started only when every earlier
\* one is terminal and has its outcome in the list, at most one call is in
\* progress, and the result list is in input order.
C12_SerialInInputOrder ==
    (IsOpenSplat /\ max_workers = 1) =>
        /\ Cardinality(InCall) <= 1
        /\ Cardinality(Running) <= 1
        /\ \A i \in Indices :
              proc[i].status # "none" =>
                  /\ \A j \in 0 .. (i - 1) : j \in Terminal /\ proc[j].status # "running"
                  /\ Len(results) >= i
        /\ \A k \in 1 .. Len(results) : results[k].test_case = Name(k - 1)

\* The third test case of a serial run is running after the first two
\* ended, one by a timeout, and left their outcomes in the list.
C12_Witness ==
    /\ IsOpenSplat /\ max_workers = 1 /\ NumTests >= 3
    /\ proc[2].status = "running"
    /\ Len(results) = 2
    /\ \E j \in 0 .. 1 : proc[j].status = "killed"

\* The state of the trial of test case i.  An executor that raised by
\* itself counts as Failed.
TrialState(i) ==
    CASE proc[i].status = "none" -> "Pending"
      [] proc[i].status = "running" -> "Running"
      [] proc[i].status = "killed" -> "TimedOut"
      [] proc[i].status = "nolaunch" -> "LaunchError"
      [] proc[i].status = "exited" /\ Verdict(i) -> "Succeeded"
      [] OTHER -> "Failed"

TerminalStates == {"Succeeded", "Failed", "TimedOut", "LaunchError"}

\* The moves of one trial in one step: Pending may become Running or end
\* at once because nothing could be launched; Running ends in one terminal
\* state; a terminal trial keeps its state, its process record and its
\* outcome.
TrialStep(i) ==
    /\ TrialState(i) = "Pending" =>
           TrialState(i)' \in {"Pending", "Running", "LaunchError", "Failed"}
    /\ TrialState(i) = "Running" =>
           TrialState(i)' \in {"Running", "Succeeded", "Failed", "TimedOut"}
    /\ TrialState(i) \in TerminalStates =>
           /\ TrialState(i)' = TrialState(i)
           /\ proc'[i] = proc[i]
           /\ future'[i] = future[i]
    /\ (proc'[i].status = "running" /\ proc[i].status # "running") =>
           proc[i].status = "none"
    /\ future[i].kind # "pending" => TrialState(i) \in TerminalStates

\* C13: every trial moves only Pending -> Running -> one terminal state,
\* a terminal state never changes, a process is launched at most once for
\* a test case, and an outcome has success = TRUE only if its trial is
\* Succeeded.
C13_TrialLifecycle ==
    /\ [][IsOpenSplat => \A i \in Indices : TrialStep(i)]_vars
    /\ [](IsOpenSplat =>
            /\ \A i \in Indices :
                  (future[i].kind = "result" /\ future[i].value.success)
                      => TrialState(i) = "Succeeded"
            /\ \A k \in 1 .. Len(results) :
                  results[k].success =>
                      \E i \in Indices : /\ Name(i) = results[k].test_case
                                          /\ TrialState(i) = "Succeeded")

\* A run has returned with one trial Succeeded, one TimedOut and one that
\* could not be launched.
C13_Witness ==
    /\ IsOpenSplat /\ pc = "returned"
    /\ \E i, j, k \in Indices :
          /\ TrialState(i) = "Succeeded"
          /\ TrialState(j) = "TimedOut"
          /\ TrialState(k) = "LaunchError"
    /\ \E k \in 1 .. Len(results) : results[k].success

\* C14: with fair scheduling and a finite timeout every call of
\* run_all_tests with max_workers >= 1 eventually returns, whether or not
\* the processes exit by themselves, and when it has returned every test
\* case has an outcome.
C14_EventuallyReturns ==
    (IsOpenSplat /\ max_workers >= 1) =>
        /\ <>(pc = "returned")
        /\ [](pc = "returned" => \A i \in Indices : OutcomesOf(i) # {})

\* Test cases for which an environment was handed to subprocess.run.
Launched == {i \in Indices : proc[i].env # ""}

\* C15: launching a trial leaves the environment of the script as it was,
\* and every process is handed CUDA_VISIBLE_DEVICES equal to the slot of
\* its own call, also while other processes are alive: two processes
\* launched for different slots never see the same value.
C15_EnvironmentIsPerProcess ==
    IsOpenSplat =>
        /\ os_environ = AmbientEnviron
        /\ \A i \in Launched : proc[i].env = ToString(proc[i].gpu_id)
        /\ \A i, j \in Launched :
              proc[i].gpu_id # proc[j].gpu_id => proc[i].env # proc[j].env

\* Two processes of a parallel run are alive at the same time on
\* different slots.
C15_Witness ==
    /\ IsOpenSplat /\ pc = "parallel"
    /\ \E i, j \in Running : proc[i].env = "0" /\ proc[j].env = "1"

\* C16: in a parallel run at most one thread writes to the console at
\* any instant and every write is made by a thread that holds the print
\* lock; the lock is always released again, and no thread waits for it
\* forever.
C16_PrintLockExcludes ==
    /\ [](/\ Cardinality(Printing) <= 1
          /\ Printing # {} => print_lock
          /\ Waiting # {} /\ Printing = {} => ~print_lock)
    /\ print_lock ~> ~print_lock
    /\ \A t \in 0 .. MaxW : (t \in Waiting) ~> (t \notin Waiting)

\* The main thread writes while both workers wait for the lock.
C16_Witness ==
    /\ pc = "parallel" /\ print_lock
    /\ Printing = {0}
    /\ {1, 2} \subseteq Waiting

\* Positions of the failed outcomes in the result list.
FailedPositions == {k \in 1 .. Len(results) : ~results[k].success}

\* C18: for every result list the summary table of the report has one
\* row for each outcome, in order, marked by the success flag of that
\* outcome, and the failure section lists exactly the outcomes with
\* success = FALSE, each one once.
C18_ReportRowsAndFailures ==
    pc = "reported" =>
        /\ Len(report.rows) = Len(results)
        /\ \A k \in 1 .. Len(results) :
              /\ report.rows[k].name = results[k].test_case
              /\ report.rows[k].status = "success" <=> results[k].success
              /\ report.rows[k].status = "failed" <=> ~results[k].success
        /\ Len(report.failures) = Cardinality(FailedPositions)
        /\ \E f \in [1 .. Len(report.failures) -> FailedPositions] :
              /\ \A a, b \in DOMAIN f : f[a] = f[b] => a = b
              /\ \A a \in DOMAIN f :
                    report.failures[a].name = results[f[a]].test_case

\* A report was made of a list with a success between two failures of
\* the same name, one of them without a message.
C18_Witness ==
    /\ pc = "reported" /\ Len(results) = 3
    /\ ~results[1].success /\ results[1].error_msg = EmptyStr
    /\ results[2].success
    /\ ~results[3].success /\ results[3].test_case = results[1].test_case
    /\ Len(report.failures) = 2

\* C17: a pool size below 1 is detected before scheduling and is fatal: no
\* trial is started and no outcomes are returned.
C17_InvalidPoolSizeIsFatal ==
    (IsOpenSplat /\ max_workers < 1) =>
        /\ \A i \in Indices : proc[i].status = "none"
        /\ results = <<>>
        /\ pc # "returned"

\* C17, as the code has it: a pool size below 1 is not rejected, the run
\* takes the sequential branch: one call at a time on slot 0, in input
\* order, the outcomes are returned, and the run is given up only when the
\* executor itself raised.
C17_PoolSizeBelowOneRunsSerially ==
    (IsOpenSplat /\ max_workers < 1) =>
        /\ pc \in {"serial", "returned", "raised"}
        /\ pc = "raised" => \E i \in Indices : future[i].kind = "exception"
        /\ Cardinality(InCall) <= 1
        /\ \A i \in Indices : proc[i].status # "none" => proc[i].gpu_id = 0
        /\ \A k \in 1 .. Len(results) : results[k].test_case = Name(k - 1)
        /\ pc = "returned" => Len(results) = NumTests

\* A run with max_workers = -1 returned the outcomes of three test cases,
\* one of them a success.
C17_Witness ==
    /\ IsOpenSplat /\ max_workers = -1 /\ pc = "returned"
    /\ NumTests = 3 /\ Len(results) = 3
    /\ \E k \in 1 .. 3 : results[k].success

\* C19: the summary reports a speedup ratio only when the elapsed time of
\* the whole run is strictly smaller than the sum of the durations, the
\* ratio is that sum divided by the elapsed time, no ratio is reported when
\* the elapsed time is equal or larger, and the division never has a zero
\* divisor.
C19_SpeedupOnlyWhenFaster ==
    pc = "summarized" =>
        /\ summary.kind \in {"ratio", "none"}
        /\ summary.kind = "ratio" =>
              /\ total_duration < SumSeq(durations)
              /\ summary.num = SumSeq(durations)
              /\ summary.den = total_duration
              /\ summary.den > 0
        /\ total_duration >= SumSeq(durations) => summary.kind = "none"
        /\ (IsOpenSplat /\ total_duration < SumSeq(durations)) =>
              summary.kind = "ratio"

\* The summary of a run whose calls overlapped was printed: the durations
\* add up to 4 ticks, the run took 2, and the ratio 4 / 2 is reported.
C19_Witness ==
    /\ pc = "summarized" /\ IsOpenSplat
    /\ summary.kind = "ratio" /\ summary.num = 4 /\ summary.den = 2

\* C20: the grouping of print_comparison is total: every model of the list
\* is a member of at least one group, and a model that no named rule
\* matches is a member of the catch-all group.
C20_GroupingIsTotal ==
    pc = "compared" =>
        \A k \in 1 .. Len(models) :
            /\ \E c \in DOMAIN groups : k \in Range(groups[c])
            /\ (\A c \in NamedCategories : ~Matches(c, models[k]))
                   => k \in Range(groups["other"])

\* A list of a model that no rule matches and a model of a named group
\* was grouped.
C20_Witness ==
    /\ pc = "compared" /\ Len(models) = 2
    /\ models[1] = "quality_v2" /\ 1 \in Range(groups["other"])
    /\ models[2] = "fresh_1" /\ 2 \in Range(groups["sh"])

\* The named groups in the order of the dict literal.
CategoryOrder ==
    <<"iters", "scale", "sh", "ssim", "refine", "grad", "size", "combined">>

\* The groups that hold the model at position k.
CategoriesOf(k) == {c \in DOMAIN groups : k \in Range(groups[c])}

\* C21: every model of the list is a member of exactly one group, once,
\* and a name that several rules match is in the group of the first rule
\* that matches it, in the order of the rules.
C21_ExactlyOneCategory ==
    pc = "compared" =>
        \A k \in 1 .. Len(models) :
            /\ Cardinality(CategoriesOf(k)) = 1
            /\ \A c \in CategoriesOf(k) :
                  Cardinality({j \in DOMAIN groups[c] : groups[c][j] = k}) = 1
            /\ \A a \in DOMAIN CategoryOrder :
                  (/\ Matches(CategoryOrder[a], models[k])
                   /\ \A b \in 1 .. (a - 1) : ~Matches(CategoryOrder[b], models[k]))
                      => CategoriesOf(k) = {CategoryOrder[a]}

\* The file holds a terminator line.
HasTerminator == \E k \in 1 .. Len(ply.lines) : In("end_header", ply.lines[k].txt)

\* C22: parse_ply_header terminates on every file and returns 0 for a
\* malformed header instead of raising, also for a file that ends before
\* any terminator line and is shorter than the budget: the loop never
\* stands at the end of the file with nothing that makes it stop, and a
\* file that is missing or has no terminator and no 'element vertex' line
\* gives 0.
C22_ParseAlwaysReturns ==
    script = "compare_results" =>
        /\ pc = "reading" => fpos <= Len(ply.lines)
        /\ (pc = "returned" /\ (~ply.exists \/ VertexLines(ply.lines) = {}))
               => num_points = 0

\* The well-formed vertex lines of PlyLines and the counts they declare.
DeclaredCounts ==
    {<<Line("element vertex 12"), 12>>, <<Line("element vertex 7"), 7>>}

Parsed == script = "compare_results" /\ pc = "returned" /\ ply.exists

\* The file has no terminator line and is longer than the budget.
OverBudget == ~HasTerminator /\ HeaderLen(ply.lines) > HeaderBudget

\* The file has one 'element vertex' line, it declares N, and the first
\* terminator line of the file follows it within the budget: N is returned.
ReturnsDeclaredCount ==
    \A d \in DeclaredCounts : \A k, t \in 1 .. Len(ply.lines) :
        (/\ ply.lines[k] = d[1]
         /\ VertexLines(ply.lines) = {k}
         /\ k < t
         /\ In("end_header", ply.lines[t].txt)
         /\ \A u \in 1 .. (t - 1) : ~In("end_header", ply.lines[u].txt)
         /\ HeaderLen(SubSeq(ply.lines, 1, t)) <= HeaderBudget)
            => num_points = d[2]

\* C23: parse_ply_header returns N for a header that holds the line
\* 'element vertex N' followed by the terminator within the budget, and
\* returns 0 for a header that exceeds the budget without a terminator,
\* whatever its lines are.
C23_CountOrZeroOverBudget ==
    Parsed =>
        /\ ReturnsDeclaredCount
        /\ OverBudget => num_points = 0

\* C23, as the code has it: the lines read are those up to the terminator
\* or up to the line with which the budget is exceeded; the first of them
\* that starts with 'element vertex' decides, also in an over-long header
\* without terminator: its count is returned if it declares one, 0 if it
\* does not, and 0 if no line read starts with 'element vertex'.
C23_FirstVertexLineDecides ==
    Parsed =>
        /\ ReturnsDeclaredCount
        /\ \A k \in 1 .. Len(header) : header[k] = ply.lines[k]
        /\ VertexLines(header) = {} => num_points = 0
        /\ \A k \in VertexLines(header) :
              (\A l \in VertexLines(header) : k <= l) =>
                  /\ \A d \in DeclaredCounts : header[k] = d[1] => num_points = d[2]
                  /\ (\A d \in DeclaredCounts : header[k] # d[1]) => num_points = 0

\* An over-long header without terminator that declares 12 vertices
\* before its long lines was parsed, and 12 was returned.
C23_Witness ==
    /\ Parsed /\ OverBudget
    /\ ply.lines[1] = Line("element vertex 12")
    /\ num_points = 12

\* C24: in quick_test the wait for the process of a started trial is
\* bounded by a per-trial timeout: whenever a process is alive, a timeout
\* is there to end the wait for it, so that the run returns results for
\* every entry of TEST_CASES even when no process exits by itself.
C24_QuickWaitIsBounded ==
    script = "quick_test" => \A i \in Running : ENABLED ProcTimeout(i)

\* C25: slots are assigned statically and are not exclusive.  In the
\* parallel path the slot of a queued call is fixed by its index alone, and
\* a queued call starts as soon as fewer than max_workers calls are in
\* progress, whether or not its slot is in use; so two test cases with the
\* same slot can run at the same time (the state of C25_Witness).
C25_SlotsAreStaticNotExclusive ==
    (IsOpenSplat /\ pc = "parallel") =>
        /\ \A k \in 1 .. Len(queue) :
              queue[k].gpu_id = queue[k].index % max_workers
        /\ (queue # <<>> /\ Cardinality(InCall) < max_workers)
               => ENABLED WorkerStart

\* With more test cases than workers, the processes of two different
\* test cases are alive at the same time on the same slot.
C25_Witness ==
    /\ IsOpenSplat /\ pc = "parallel"
    /\ max_workers >= 2 /\ NumTests > max_workers
    /\ \E i, j \in Running :
          /\ i # j
          /\ proc[i].gpu_id = proc[j].gpu_id
          /\ proc[i].env = proc[j].env

\* The outcomes in the result list that say success.
Successes == {k \in 1 .. Len(results) : results[k].success}

\* C26: every outcome with success = TRUE that run_single_test returned
\* belongs to a call whose artifact file was there when its size was read,
\* and a call whose process exited with zero while the file was missing
\* returned a failed outcome that carries the error of the read.
C26_SuccessHasArtifact ==
    IsOpenSplat =>
        /\ \A k \in Successes :
              \E i \in Indices :
                  /\ Name(i) = results[k].test_case
                  /\ proc[i].status = "exited" /\ proc[i].artifact
                  /\ results[k].output_file = OutputFile(Name(i))
        /\ \A i \in Indices :
              (future[i].kind = "result" /\ future[i].value.success)
                  => proc[i].artifact
        /\ \A i \in Indices :
              (proc[i].status = "exited" /\ proc[i].code = 0 /\ ~proc[i].artifact)
                  => /\ future[i].kind = "result"
                     /\ ~future[i].value.success
                     /\ future[i].value.error_msg = GetsizeError

\* A run returned a success and, for a process that exited with zero
\* without leaving the file, a failure with the error of the read.
C26_Witness ==
    /\ IsOpenSplat /\ pc = "returned"
    /\ Successes # {}
    /\ \E k \in 1 .. Len(results) :
          ~results[k].success /\ results[k].error_msg = GetsizeError

====
